---- MODULE Spec2Model ----
(***************************************************************************)
(* OpenFActScore: the verification-and-scoring pipeline of                 *)
(* factscore/factscorer.py (FactScorer.__init__, get_score, _get_score,    *)
(* save_cache and the batch entry point) with the Llama3LM backend of      *)
(* factscore/Llama3LM.py.                                                  *)
(*                                                                         *)
(* Python strings that the code searches (model names, generated answers)  *)
(* are sequences of one-character strings, so that `in`, index(), lower(), *)
(* translate() and split() are computed as Python computes them.  Prompts  *)
(* are sequences of words, so that len(prompt.split()) is Len(prompt).     *)
(* Floats: a per-response score is kept exactly as (num/den)*exp(en/ed).   *)
(***************************************************************************)
EXTENDS Integers, Sequences, FiniteSets, TLC

(***************************************************************************)
(* Bounds of the model.                                                    *)
(***************************************************************************)
MaxBatch == 3
MaxFacts == 2
MaxGamma == 3
FlushBatch == 11
MaxCalls == 3

(***************************************************************************)
(* Optional values (Python None).                                          *)
(***************************************************************************)
None == [none |-> TRUE]
Some(v) == [none |-> FALSE, val |-> v]
IsNone(x) == x.none

(***************************************************************************)
(* Python string operations on character sequences.                        *)
(***************************************************************************)
UpperCase == <<"A","B","C","D","E","F","G","H","I","J","K","L","M","N","O","P","Q","R","S","T","U","V","W","X","Y","Z">>
LowerCase == <<"a","b","c","d","e","f","g","h","i","j","k","l","m","n","o","p","q","r","s","t","u","v","w","x","y","z">>

\* str.lower() on one character
LowerChar(c) ==
  IF \E k \in 1..26 : UpperCase[k] = c
  THEN LowerCase[CHOOSE k \in 1..26 : UpperCase[k] = c]
  ELSE c

\* str.lower()
Lower(s) == [k \in 1..Len(s) |-> LowerChar(s[k])]

\* sub occurs in s at position k (0-based)
MatchAt(sub, s, k) == \A j \in 1..Len(sub) : s[k + j] = sub[j]

\* the positions (0-based) at which sub occurs in s
Occurrences(sub, s) == {k \in 0..(Len(s) - Len(sub)) : MatchAt(sub, s, k)}

\* Python `sub in s` on strings
StrIn(sub, s) == \E k \in 0..(Len(s) - Len(sub)) : MatchAt(sub, s, k)

\* Python s.index(sub): the lowest position; defined when sub is in s
StrIndex(s, sub) ==
  CHOOSE k \in Occurrences(sub, s) : \A m \in Occurrences(sub, s) : k <= m

\* string.punctuation (without the backquote, which the TLA+ lexer does not
\* accept in a string; no answer of the model contains one)
Punctuation == {"!","\"","#","$","%","&","'","(",")","*","+",",","-",".","/",":",";","<","=",">","?","@","[","\\","]","^","_","{","|","}","~"}

\* s.translate(str.maketrans("", "", string.punctuation))
StripPunctuation(s) == SelectSeq(s, LAMBDA c : c \notin Punctuation)

Whitespace == {" ", "\n", "\t"}

RECURSIVE SplitFrom(_, _, _)
\* str.split(): the maximal runs of non-whitespace characters, in order
SplitFrom(s, k, word) ==
  IF k > Len(s)
  THEN IF word = <<>> THEN <<>> ELSE <<word>>
  ELSE IF s[k] \in Whitespace
       THEN IF word = <<>>
            THEN SplitFrom(s, k + 1, <<>>)
            ELSE <<word>> \o SplitFrom(s, k + 1, <<>>)
       ELSE SplitFrom(s, k + 1, Append(word, s[k]))

Split(s) == SplitFrom(s, 1, <<>>)

\* Python `x in list`
ListIn(x, list) == \E k \in 1..Len(list) : list[k] = x

RECURSIVE Join(_, _)
\* sep.join(list)
Join(sep, list) ==
  IF list = <<>> THEN <<>>
  ELSE IF Len(list) = 1 THEN list[1]
       ELSE list[1] \o sep \o Join(sep, Tail(list))

Reverse(s) == [k \in 1..Len(s) |-> s[Len(s) + 1 - k]]

(***************************************************************************)
(* String literals of the source.                                          *)
(***************************************************************************)
S_inst_llama == <<"i","n","s","t","-","l","l","a","m","a">>
S_ChatGPT == <<"C","h","a","t","G","P","T">>
S_Llama31 == <<"L","l","a","m","a","-","3",".","1">>
S_Llama31_8B_Instruct == <<"L","l","a","m","a","-","3",".","1","-","8","B","-","I","n","s","t","r","u","c","t">>
S_npm == <<"n","p","m">>
S_retrieval == <<"r","e","t","r","i","e","v","a","l">>
S_true == <<"t","r","u","e">>
S_false == <<"f","a","l","s","e">>
S_not == <<"n","o","t">>
S_cannot == <<"c","a","n","n","o","t">>
S_unknown == <<"u","n","k","n","o","w","n">>
S_information == <<"i","n","f","o","r","m","a","t","i","o","n">>
RefusalKeywords == <<S_not, S_cannot, S_unknown, S_information>>

\* model names a caller may configure besides the default
S_Llama31_70B_Instruct == <<"L","l","a","m","a","-","3",".","1","-","7","0","B","-","I","n","s","t","r","u","c","t">>
S_gpt2 == <<"g","p","t","2">>

\* answers a verification model may generate
T_True == <<"T","r","u","e">>
T_False == <<"F","a","l","s","e">>
T_Ex4 == <<"I"," ","b","e","l","i","e","v","e"," ","t","h","i","s"," ","i","s"," ","t","r","u","e",","," ","n","o","t"," ","f","a","l","s","e">>
T_FalseFirst == <<"F","a","l","s","e","."," ","I","t"," ","i","s"," ","n","o","t"," ","t","r","u","e">>
T_Untrue == <<"U","n","t","r","u","e">>
T_NoInfo == <<"N","o"," ","i","n","f","o","r","m","a","t","i","o","n",".">>
T_Yes == <<"Y","e","s">>
T_Nothing == <<"N","o","t","h","i","n","g"," ","n","o","t","a","b","l","e">>
T_Cannot == <<"I"," ","c","a","n","n","o","t",","," ","s","o","r","r","y">>

(***************************************************************************)
(* FactScorer.__init__ and generate_model_name.                            *)
(***************************************************************************)
\* "+".join([retrieval?] + [afg_model, afv_model] + [npm?])
generate_model_name(afg_model, afv_model, is_npm, is_retrieval) ==
  Join(<<"+">>,
       (IF is_retrieval THEN <<S_retrieval>> ELSE <<>>)
       \o <<afg_model, afv_model>>
       \o (IF is_npm THEN <<S_npm>> ELSE <<>>))

\* the backend chosen by substring of the model name; "None" is no model
SelectLM(model_name) ==
  IF StrIn(S_inst_llama, model_name) THEN "CLM"
  ELSE IF StrIn(S_ChatGPT, model_name) THEN "OpenAIModel"
  ELSE IF StrIn(S_Llama31, model_name) THEN "Llama3LM"
  ELSE "None"

FactScorerInit(afg_model, afv_model, is_npm, is_retrieval, cost_estimate) ==
  [afg_model |-> afg_model,
   afv_model |-> afv_model,
   is_npm |-> is_npm,
   is_retrieval |-> is_retrieval,
   model_name |-> generate_model_name(afg_model, afv_model, is_npm, is_retrieval),
   cost_estimate |-> cost_estimate,
   lm |-> SelectLM(generate_model_name(afg_model, afv_model, is_npm, is_retrieval))]

(***************************************************************************)
(* External collaborators at their call boundary.  Enumerated values use   *)
(* the string "None" for Python None; optional lists use None / Some.      *)
(***************************************************************************)
\* Retrieval.get_passages(topic, atom, k=5): passages by descending relevance,
\* a fixed function of the query; a passage is [title, text] in words
get_passages(topic, atom) ==
  << [title |-> <<topic>>, text |-> <<"best", "match">>],
     [title |-> <<topic>>, text |-> atom] >>

\* LM.generate(prompt): the cached value when the fingerprint (prompt, sample
\* index 0) is in cache_dict, else the model's answer, which is then stored
generate(cache_dict, prompt, answer) ==
  IF <<prompt, 0>> \in DOMAIN cache_dict
  THEN [output |-> cache_dict[<<prompt, 0>>], cache_dict |-> cache_dict, invoked |-> FALSE]
  ELSE [output |-> answer,
        cache_dict |-> [k \in (DOMAIN cache_dict) \cup {<<prompt, 0>>} |->
                          IF k = <<prompt, 0>> THEN answer ELSE cache_dict[k]],
        invoked |-> TRUE]

(***************************************************************************)
(* FactScorer._get_score: prompt construction.                             *)
(***************************************************************************)
RECURSIVE Context(_)
\* "Title: {}\nText: {}\n\n" for each passage, in the order given
Context(passages) ==
  IF passages = <<>> THEN <<>>
  ELSE <<"Title:">> \o Head(passages).title \o <<"Text:">> \o Head(passages).text
       \o Context(Tail(passages))

\* the prompt as its words: definition, context of the passages in reverse
\* retrieval order, then the question.  The "." appended to a definition that
\* does not end in punctuation joins the last word and adds none.
BuildPrompt(topic, passages, atom) ==
  <<"Answer", "the", "question", "about", topic, "based", "on", "the", "given", "context.">>
  \o Context(Reverse(passages))
  \o <<"Input:">> \o atom \o <<"True", "or", "False?", "Answer:">>

(***************************************************************************)
(* FactScorer._get_score: answer resolution.                               *)
(***************************************************************************)
true_ix == 5852
false_ix == 7700
VocabSizes == {32000, 32001}

\* mutant: the score vector is used under every model name
UseLogitsAnyModel(output, model_name) == ~IsNone(output.aux)

\* type(output[1])==np.ndarray and "Llama-3.1-8B-Instruct" not in self.model_name
UseLogits(output, model_name) ==
  /\ ~IsNone(output.aux)
  /\ ~StrIn(S_Llama31_8B_Instruct, model_name)

\* is_supported = true_score > false_score
LogitsSupported(logits) == logits.at[true_ix] > logits.at[false_ix]

\* both keywords present: generated_answer.index("true") > generated_answer.index("false")
BothSupported(generated_answer) ==
  StrIndex(generated_answer, S_true) > StrIndex(generated_answer, S_false)

\* mutant: a refusal keyword anywhere in the answer, inside a word too
NeitherSupportedBySubstring(generated_answer) ==
  \A k \in 1..Len(RefusalKeywords) :
    ~StrIn(RefusalKeywords[k], StripPunctuation(Lower(generated_answer)))

\* neither keyword present: no refusal keyword among the words of the answer
\* with its punctuation removed
NeitherSupported(generated_answer) ==
  \A k \in 1..Len(RefusalKeywords) :
    ~ListIn(RefusalKeywords[k], Split(StripPunctuation(Lower(generated_answer))))

\* the branch "when logits are unavailable"
TextSupported(text) ==
  LET generated_answer == Lower(text) IN
  IF StrIn(S_true, generated_answer) \/ StrIn(S_false, generated_answer)
  THEN IF StrIn(S_true, generated_answer) /\ ~StrIn(S_false, generated_answer)
       THEN TRUE
       ELSE IF StrIn(S_false, generated_answer) /\ ~StrIn(S_true, generated_answer)
            THEN FALSE
            ELSE BothSupported(generated_answer)
  ELSE NeitherSupported(generated_answer)

\* the decision from one output of lm.generate; error is the failed assert on
\* the length of the score vector
ResolveAnswer(output, model_name) ==
  IF UseLogits(output, model_name)
  THEN [mode |-> "logits",
        error |-> output.aux.val.shape \notin VocabSizes,
        is_supported |-> LogitsSupported(output.aux.val)]
  ELSE [mode |-> "text", error |-> FALSE, is_supported |-> TextSupported(output.text)]

(***************************************************************************)
(* FactScorer._get_score: the loop over the atomic facts of one response.  *)
(* st carries the locals (decisions, total_words), the cache of self.lm,   *)
(* and a trace of the calls made, one entry per fact that reached the end  *)
(* of the loop body.  answers[k] and probs[k] are what the verification    *)
(* model and the cross-checker return for fact k if they are asked.        *)
(***************************************************************************)
NpmThresholdPct == 30

\* mutant: the cross-checker is asked about unsupported facts too
NpmQueriedAlways(is_supported, model_name) == StrIn(S_npm, model_name)

\* `if is_supported and "npm" in self.model_name`
NpmQueried(is_supported, model_name) == is_supported /\ StrIn(S_npm, model_name)

\* is_supported = npprob > 0.3, the probability in hundredths
NpmSupported(npprob) == npprob > NpmThresholdPct

\* `if cost_estimate == "consider_cache" and key not in cache_dict: count
\*  elif cost_estimate == "ignore_cache": count`
WordsCounted(cost_estimate, prompt, cache_dict) ==
  \/ cost_estimate = "consider_cache" /\ <<prompt, 0>> \notin DOMAIN cache_dict
  \/ cost_estimate = "ignore_cache"

\* mutant: the `continue` of the cost estimate is missing
SkipsVerificationNever(lm, cost_estimate) == FALSE

\* `if cost_estimate: ... continue`, inside `if self.lm:`
SkipsVerification(lm, cost_estimate) == lm # "None" /\ cost_estimate # "None"

StartGetScore(cache_dict) ==
  [decisions |-> <<>>, total_words |-> 0, cache_dict |-> cache_dict,
   trace |-> <<>>, lm_calls |-> 0, npm_calls |-> 0, retrieval_calls |-> 0,
   error |-> FALSE]

\* mutant: without a model every fact is unsupported
UnverifiedFalse == [mode |-> "none", error |-> FALSE, is_supported |-> FALSE]

\* `else: is_supported = True` when self.lm is None
Unverified == [mode |-> "none", error |-> FALSE, is_supported |-> TRUE]

\* one iteration of `for atom in atomic_facts`
AtomStep(self, topic, atom, cost_estimate, st, answer, npprob) ==
  LET passages == get_passages(topic, atom)
      prompt == BuildPrompt(topic, passages, atom)
      gen == generate(st.cache_dict, prompt, answer)
      res == IF self.lm # "None"
             THEN ResolveAnswer(gen.output, self.model_name)
             ELSE Unverified
      queried == NpmQueried(res.is_supported, self.model_name)
      is_supported == IF queried THEN NpmSupported(npprob) ELSE res.is_supported
  IN
  IF SkipsVerification(self.lm, cost_estimate)
  THEN [st EXCEPT !.retrieval_calls = @ + 1,
                  !.total_words = @ + (IF WordsCounted(cost_estimate, prompt, st.cache_dict)
                                       THEN Len(prompt) ELSE 0)]
  ELSE IF res.error
  THEN [st EXCEPT !.retrieval_calls = @ + 1,
                  !.lm_calls = @ + 1,
                  !.cache_dict = gen.cache_dict,
                  !.error = TRUE]
  ELSE [st EXCEPT !.retrieval_calls = @ + (IF self.lm # "None" THEN 1 ELSE 0),
                  !.lm_calls = @ + (IF self.lm # "None" THEN 1 ELSE 0),
                  !.cache_dict = IF self.lm # "None" THEN gen.cache_dict ELSE @,
                  !.npm_calls = @ + (IF queried THEN 1 ELSE 0),
                  !.decisions = Append(@, [atom |-> atom, is_supported |-> is_supported]),
                  !.trace = Append(@, [atom |-> atom,
                                       prompt |-> IF self.lm # "None" THEN Some(prompt) ELSE None,
                                       output |-> IF self.lm # "None" THEN Some(gen.output) ELSE None,
                                       mode |-> res.mode,
                                       verified |-> res.is_supported,
                                       npprob |-> IF queried THEN Some(npprob) ELSE None,
                                       is_supported |-> is_supported])]

RECURSIVE GetScoreLoop(_, _, _, _, _, _, _, _)
\* the rest of the loop from fact k on; a failed assert ends the call
GetScoreLoop(self, topic, atomic_facts, cost_estimate, st, answers, probs, k) ==
  IF k > Len(atomic_facts) \/ st.error THEN st
  ELSE GetScoreLoop(self, topic, atomic_facts, cost_estimate,
                    AtomStep(self, topic, atomic_facts[k], cost_estimate, st,
                             answers[k], probs[k]),
                    answers, probs, k + 1)

\* the state at the return of _get_score; it returns total_words when
\* cost_estimate is set and decisions otherwise
get_score_inner(self, topic, atomic_facts, cost_estimate, cache_dict, answers, probs) ==
  GetScoreLoop(self, topic, atomic_facts, cost_estimate, StartGetScore(cache_dict),
               answers, probs, 1)

(***************************************************************************)
(* Score arithmetic.  np.mean of a list of booleans or integers is the     *)
(* exact fraction [num, den] (den = 0 is NaN); a per-response score is     *)
(* (num/den) * exp(en/ed); np.mean of a list of scores is kept as the list.*)
(***************************************************************************)
RECURSIVE SumSeq(_)
SumSeq(xs) == IF xs = <<>> THEN 0 ELSE Head(xs) + SumSeq(Tail(xs))

\* np.mean over booleans
MeanOfBools(bs) ==
  [num |-> Cardinality({k \in 1..Len(bs) : bs[k]}), den |-> Len(bs)]

\* np.mean over integers
MeanOfInts(xs) == [num |-> SumSeq(xs), den |-> Len(xs)]

\* np.mean over per-response scores
MeanOfScores(xs) == [mean_of |-> xs]

\* mutant: exp(1 - len(facts)/gamma)
PenaltySwapped(gamma, c) ==
  IF c > gamma THEN [en |-> 0, ed |-> 1] ELSE [en |-> gamma - c, ed |-> gamma]

\* penalty = 1.0 if len(facts)>gamma else np.exp(1-gamma/len(facts)),
\* as the exponent en/ed of e; 1 - gamma/c = (c - gamma)/c
Penalty(gamma, c) ==
  IF c > gamma THEN [en |-> 0, ed |-> 1] ELSE [en |-> c - gamma, ed |-> c]

\* score = np.mean([d["is_supported"] for d in decision])
InitScore(decision) ==
  [num |-> MeanOfBools([k \in 1..Len(decision) |-> decision[k].is_supported]).num,
   den |-> Len(decision), en |-> 0, ed |-> 1]

\* score = penalty * score
Penalized(penalty, score) == [score EXCEPT !.en = penalty.en, !.ed = penalty.ed]

\* [fact for _, facts in curr_afs for fact in facts], and the same flattening
\* of annotations: the facts of every sentence, in order
RECURSIVE Flatten(_)
Flatten(sentences) ==
  IF sentences = <<>> THEN <<>> ELSE Head(sentences) \o Flatten(Tail(sentences))

(***************************************************************************)
(* State.                                                                  *)
(***************************************************************************)
VARIABLES
  self,             \* the FactScorer's configuration (set by __init__)
  lm_cache,         \* self.lm.cache_dict: fingerprint -> cached output
  retrieval,        \* names registered in self.retrieval
  npm,              \* names registered in self.npm
  db,               \* names registered in self.db
  registrations,    \* per name, how often its registries were filled in
  last_register,    \* the last call of register_knowledge_source
  calls,            \* calls of the FactScorer's methods made by its user
  events,           \* the calls get_score has issued in this run, in order
  env,              \* what the external models can answer in this run
  args,             \* the command line / call arguments
  file,             \* the lines of the input file
  tot,              \* lines read so far by the entry point
  topics,           \* topics of the batch
  generations,      \* generations of the batch
  atomic_facts,     \* per response: None, or Some(list of facts)
  pc,               \* position in the entry point / get_score
  i,                \* responses already handled by the current loop
  respond_ratio,    \* get_score's respond_ratio
  total_words,      \* accumulated cost estimate
  scores,           \* get_score's scores
  init_scores,      \* get_score's init_scores
  decisions,        \* get_score's decisions
  out,              \* the returned report
  unsaved,          \* items processed since the last flush of their cache
  call              \* the last call of _get_score and what it did

vars == <<self, lm_cache, db, retrieval, npm, registrations, last_register,
                 calls, env, args, file, tot, topics,
          generations, atomic_facts, pc, i, respond_ratio, total_words,
          scores, init_scores, decisions, out, unsaved, call, events>>

DefaultKnowledgeSource == "enwiki-20230401"
NoCall == [kind |-> "none"]
SavePeriod == 10

(***************************************************************************)
(* The batch entry point: the loop that reads the input file.              *)
(* A line is [topic, output, annotations]; annotations is None or          *)
(* Some(sentences), each sentence the list of its facts.                   *)
(***************************************************************************)
\* `if args.n_samples is not None and tot == args.n_samples: break`
BreakAfter(n_samples, t) == ~IsNone(n_samples) /\ t = n_samples.val

\* `if dp["annotations"] is None: continue`
SkipsLine(use_atomic_facts, dp) == use_atomic_facts /\ IsNone(dp.annotations)

ReadLine ==
  /\ pc = "read"
  /\ tot < Len(file)
  /\ LET dp == file[tot + 1]
         skipped == SkipsLine(args.use_atomic_facts, dp)
         stop == \/ tot + 1 = Len(file)
                 \/ ~skipped /\ BreakAfter(args.n_samples, tot + 1)
     IN /\ tot' = tot + 1
        /\ topics' = IF skipped THEN topics ELSE Append(topics, dp.topic)
        /\ generations' = IF skipped THEN generations ELSE Append(generations, dp.output)
        /\ atomic_facts' = IF args.use_atomic_facts /\ ~skipped
                           THEN Append(atomic_facts, Some(Flatten(dp.annotations.val)))
                           ELSE atomic_facts
        /\ pc' = IF stop THEN "call" ELSE "read"
  /\ UNCHANGED <<self, lm_cache, db, retrieval, npm, registrations, last_register,
                 calls, env, args, file, i, respond_ratio,
                 total_words, scores, init_scores, decisions, out, unsaved, call, events>>

(***************************************************************************)
(* FactScorer.get_score.                                                   *)
(***************************************************************************)
\* the knowledge sources a caller may name
KnowledgeSources == {DefaultKnowledgeSource, "custom"}

NoRegister == [kind |-> "none"]

\* get_score's knowledge_source argument; it defaults to None
KnowledgeSourceArg(a) ==
  IF "knowledge_source" \in DOMAIN a THEN a.knowledge_source ELSE None

\* the arguments a, with get_score's knowledge_source given as ks
WithKnowledgeSource(a, ks) ==
  [f \in DOMAIN a \cup {"knowledge_source"} |->
     IF f = "knowledge_source" THEN ks ELSE a[f]]

\* `if knowledge_source is None: knowledge_source = "enwiki-20230401"`
KnowledgeSourceOf(a) ==
  IF IsNone(KnowledgeSourceArg(a)) THEN DefaultKnowledgeSource
  ELSE KnowledgeSourceArg(a).val

\* the three registries of a FactScorer, with the count of the times each
\* name's entries were filled in
Registries == [db |-> db, retrieval |-> retrieval, npm |-> npm,
               registrations |-> registrations]

\* mutant: register_knowledge_source without its assertion
AlreadyRegisteredNever(name, registry) == FALSE

\* `assert name not in self.retrieval` fails
AlreadyRegistered(name, registry) == name \in registry

\* register_knowledge_source(name) on the registries reg: the assertion
\* fails before anything is assigned, else self.db[name], self.retrieval[name]
\* and (with "npm" in the model name) self.npm[name] are assigned
register_knowledge_source(reg, model_name, name) ==
  IF AlreadyRegistered(name, reg.retrieval)
  THEN [failed |-> TRUE, reg |-> reg]
  ELSE [failed |-> FALSE,
        reg |-> [db |-> reg.db \cup {name},
                 retrieval |-> reg.retrieval \cup {name},
                 npm |-> IF StrIn(S_npm, model_name) THEN reg.npm \cup {name}
                         ELSE reg.npm,
                 registrations |-> [reg.registrations EXCEPT ![name] = @ + 1]]]

\* `if knowledge_source not in self.retrieval:` in get_score
RegistersFirst(knowledge_source, registry) == knowledge_source \notin registry

\* a call of register_knowledge_source by the user of the FactScorer, before
\* or between calls of get_score; an AssertionError leaves the object usable
RegisterKnowledgeSource ==
  /\ pc \in {"call", "done"}
  /\ args.entry = "api"
  /\ calls < MaxCalls
  /\ \E name \in KnowledgeSources :
       LET r == register_knowledge_source(Registries, self.model_name, name)
       IN /\ db' = r.reg.db
          /\ retrieval' = r.reg.retrieval
          /\ npm' = r.reg.npm
          /\ registrations' = r.reg.registrations
          /\ last_register' = [kind |-> "register", name |-> name, failed |-> r.failed,
                               before |-> Registries, after |-> r.reg]
  /\ calls' = calls + 1
  /\ UNCHANGED <<self, lm_cache, env, args, file, tot, topics, generations,
                 atomic_facts, pc, i, respond_ratio, total_words, scores, init_scores,
                 decisions, out, unsaved, call, events>>

\* a further call of get_score on the same FactScorer, with the same batch
\* and any knowledge source
GetScoreAgain ==
  /\ pc = "done"
  /\ args.entry = "api"
  /\ calls < MaxCalls
  /\ \E ks \in {None} \cup {Some(name) : name \in KnowledgeSources} :
       args' = WithKnowledgeSource(args, ks)
  /\ pc' = "call"
  /\ out' = None
  /\ calls' = calls + 1
  /\ UNCHANGED <<self, lm_cache, db, retrieval, npm, registrations, last_register,
                 env, file, tot, topics, generations, atomic_facts, i, respond_ratio,
                 total_words, scores, init_scores, decisions, unsaved, call, events>>

\* an entry of the history of a run: a call issued for a response
Event(op, response) == [op |-> op, response |-> response]

\* the cost estimate of the decomposition, for model names with "ChatGPT":
\* af_generator.run(gen, cost_estimate=self.cost_estimate) on every generation
DecomposeEstimate(model_name, gens) ==
  IF StrIn(S_ChatGPT, model_name)
  THEN [k \in 1..Len(gens) |-> Event("decompose_estimate", k)]
  ELSE <<>>

\* the calls that a call of _get_score with the result r has issued
CallsOf(r, response) ==
  (IF r.retrieval_calls > 0 THEN <<Event("retrieval", response)>> ELSE <<>>)
  \o (IF r.lm_calls > 0 THEN <<Event("verify", response)>> ELSE <<>>)
  \o (IF r.npm_calls > 0 THEN <<Event("cross_check", response)>> ELSE <<>>)

\* entry: the knowledge source is registered unless it is already, and the
\* supplied atomic_facts must be as many as the topics
GetScoreCall ==
  /\ pc = "call"
  /\ LET knowledge_source == KnowledgeSourceOf(args)
         r == IF RegistersFirst(knowledge_source, retrieval)
              THEN register_knowledge_source(Registries, self.model_name,
                                             knowledge_source)
              ELSE [failed |-> FALSE, reg |-> Registries]
     IN /\ db' = r.reg.db
        /\ retrieval' = r.reg.retrieval
        /\ npm' = r.reg.npm
        /\ registrations' = r.reg.registrations
        /\ last_register' = IF RegistersFirst(knowledge_source, retrieval)
                            THEN [kind |-> "get_score", name |-> knowledge_source,
                                  failed |-> r.failed, before |-> Registries,
                                  after |-> r.reg]
                            ELSE last_register
        /\ IF r.failed
           THEN pc' = "error" /\ events' = <<>> /\ UNCHANGED atomic_facts
           ELSE IF args.use_atomic_facts
           THEN /\ pc' = IF Len(topics) = Len(atomic_facts) THEN "ratio" ELSE "error"
                /\ events' = <<>>
                /\ UNCHANGED atomic_facts
           ELSE /\ pc' = "decompose"
                /\ events' = DecomposeEstimate(self.model_name, generations)
                /\ atomic_facts' = <<>>
  /\ i' = 0
  /\ UNCHANGED <<self, lm_cache, calls, env, args, file, tot, topics, generations,
                 respond_ratio, total_words, scores, init_scores, decisions, out,
                 unsaved, call>>

\* is_response_abstained(gen, self.abstain_detection_type): a generation is
\* None when the detector classifies it as abstained, else Some(sentences)
\* with the facts the decomposer finds in each sentence
is_response_abstained(gen) == IsNone(gen)

\* `if len(atomic_facts) % 10 == 0: save_cache()`
SaveDue(n) == n % SavePeriod = 0

\* the sentences the decomposer finds in a generation; a generation
\* classified as abstained carries none
Sentences(gen) == IF IsNone(gen) THEN <<>> ELSE gen.val

\* the result of the abstain check on a response
AbstainCheck(response, result) ==
  [op |-> "abstain_check", response |-> response, result |-> result]

\* mutant: the decomposition loop without its `continue`
CallsDecomposerAlways(response_abstained) == TRUE

\* `if response_abstained: atomic_facts.append(None); continue`: the
\* decomposer runs only on a response that is not abstained
CallsDecomposer(response_abstained) == ~response_abstained

\* one iteration of the decomposition loop
DecomposeStep ==
  /\ pc = "decompose"
  /\ i < Len(topics)
  /\ LET gen == generations[i + 1]
         response_abstained == is_response_abstained(gen)
         curr_afs == Flatten(Sentences(gen))
     IN IF ~CallsDecomposer(response_abstained)
        THEN /\ atomic_facts' = Append(atomic_facts, None)
             /\ events' = Append(events, AbstainCheck(i + 1, response_abstained))
             /\ UNCHANGED unsaved
        ELSE /\ atomic_facts' = Append(atomic_facts,
                                       IF Len(curr_afs) = 0 THEN None ELSE Some(curr_afs))
             /\ events' = events \o <<AbstainCheck(i + 1, response_abstained),
                                       Event("decompose", i + 1)>>
             /\ unsaved' = [unsaved EXCEPT !.af = IF SaveDue(Len(atomic_facts'))
                                                  THEN 0 ELSE @ + 1]
  /\ i' = i + 1
  /\ UNCHANGED <<self, lm_cache, db, retrieval, npm, registrations, last_register,
                 calls, env, args, file, tot, topics,
                 generations, pc, respond_ratio, total_words, scores, init_scores,
                 decisions, out, call>>

\* after the loop: af_generator.save_cache()
DecomposeEnd ==
  /\ pc = "decompose"
  /\ i = Len(topics)
  /\ pc' = IF Len(atomic_facts) = Len(topics) THEN "ratio" ELSE "error"
  /\ unsaved' = [unsaved EXCEPT !.af = 0]
  /\ UNCHANGED <<self, lm_cache, db, retrieval, npm, registrations, last_register,
                 calls, env, args, file, tot, topics,
                 generations, atomic_facts, i, respond_ratio, total_words, scores,
                 init_scores, decisions, out, call, events>>

\* respond_ratio = np.mean([facts is not None for facts in atomic_facts])
RespondRatio ==
  /\ pc = "ratio"
  /\ respond_ratio' = MeanOfBools([k \in 1..Len(atomic_facts) |-> ~IsNone(atomic_facts[k])])
  /\ pc' = IF StrIn(S_ChatGPT, self.model_name) THEN "estimate" ELSE "score"
  /\ i' = 0
  /\ total_words' = 0
  /\ scores' = <<>>
  /\ init_scores' = <<>>
  /\ decisions' = <<>>
  /\ UNCHANGED <<self, lm_cache, db, retrieval, npm, registrations, last_register,
                 calls, env, args, file, tot, topics,
                 generations, atomic_facts, out, unsaved, call, events>>

\* what self.lm can return: Llama3LM._generate always returns the scores of
\* the first generated token beside the text
LMOutputs(lm) ==
  IF lm = "Llama3LM" THEN {o \in env.outputs : ~IsNone(o.aux)} ELSE env.outputs

\* one iteration of the cost-estimate loop (model names with "ChatGPT"):
\* total_words += self._get_score(..., cost_estimate=self.cost_estimate)
EstimateStep ==
  /\ pc = "estimate"
  /\ i < Len(topics)
  /\ LET facts == atomic_facts[i + 1] IN
     IF IsNone(facts)
     THEN UNCHANGED <<lm_cache, total_words, call, pc, events>>
     ELSE \E r \in {get_score_inner(self, topics[i + 1], facts.val, self.cost_estimate,
                                    lm_cache, answers, probs) :
                      answers \in [1..Len(facts.val) -> LMOutputs(self.lm)],
                      probs \in [1..Len(facts.val) -> env.probs]} :
            LET cost_estimate == self.cost_estimate
            IN /\ lm_cache' = r.cache_dict
               /\ events' = events \o CallsOf(r, i + 1)
               /\ call' = [kind |-> "estimate", response |-> i + 1,
                           cost_estimate |-> cost_estimate,
                           facts |-> facts.val, cache_before |-> lm_cache, result |-> r]
               \* without cost_estimate the call returns decisions, and adding
               \* them to an integer raises
               /\ IF cost_estimate = "None" \/ r.error
                  THEN pc' = "error" /\ UNCHANGED total_words
                  ELSE pc' = pc /\ total_words' = total_words + r.total_words
  /\ i' = i + 1
  /\ UNCHANGED <<self, db, retrieval, npm, registrations, last_register, calls,
                 env, args, file, tot, topics, generations,
                 atomic_facts, respond_ratio, scores, init_scores, decisions, out,
                 unsaved>>

\* after the cost-estimate loop: print_cost_estimates, then the scoring loop
EstimateEnd ==
  /\ pc = "estimate"
  /\ i = Len(topics)
  /\ pc' = "score"
  /\ i' = 0
  /\ UNCHANGED <<self, lm_cache, db, retrieval, npm, registrations, last_register,
                 calls, env, args, file, tot, topics,
                 generations, atomic_facts, respond_ratio, total_words, scores,
                 init_scores, decisions, out, unsaved, call, events>>

\* mutant: an absent response is scored as zero
ScoreAbsentAsZero(lists) ==
  [lists EXCEPT !.decisions = Append(@, None),
                !.scores = Append(@, [num |-> 0, den |-> 1, en |-> 0, ed |-> 1])]

\* `if facts is None: decisions.append(None)`, on the lists of the loop
ScoreAbsent(lists) == [lists EXCEPT !.decisions = Append(@, None)]

\* one iteration of the scoring loop
ScoreStep ==
  /\ pc = "score"
  /\ i < Len(topics)
  /\ LET facts == atomic_facts[i + 1] IN
     IF IsNone(facts)
     THEN LET lists == ScoreAbsent([scores |-> scores, init_scores |-> init_scores,
                                    decisions |-> decisions])
          IN /\ decisions' = lists.decisions
             /\ scores' = lists.scores
             /\ init_scores' = lists.init_scores
             /\ UNCHANGED <<lm_cache, unsaved, call, pc, events>>
     ELSE \E r \in {get_score_inner(self, topics[i + 1], facts.val, "None",
                                    lm_cache, answers, probs) :
                      answers \in [1..Len(facts.val) -> LMOutputs(self.lm)],
                      probs \in [1..Len(facts.val) -> env.probs]} :
            LET decision == r.decisions
                score == InitScore(decision)
                \* gamma/len(facts) with no facts raises ZeroDivisionError
                raises == args.gamma # 0 /\ Len(facts.val) = 0
                final == IF args.gamma # 0 /\ ~raises
                         THEN Penalized(Penalty(args.gamma, Len(facts.val)), score)
                         ELSE score
            IN /\ lm_cache' = r.cache_dict
               /\ events' = events \o CallsOf(r, i + 1)
               /\ call' = [kind |-> "score", response |-> i + 1,
                           cost_estimate |-> "None",
                           facts |-> facts.val, cache_before |-> lm_cache, result |-> r]
               /\ IF r.error
                  THEN /\ pc' = "error"
                       /\ UNCHANGED <<scores, init_scores, decisions, unsaved>>
                  ELSE /\ init_scores' = IF args.gamma # 0
                                         THEN Append(init_scores, score) ELSE init_scores
                       /\ IF raises
                          THEN /\ pc' = "error"
                               /\ UNCHANGED <<scores, decisions, unsaved>>
                          ELSE /\ pc' = pc
                               /\ decisions' = Append(decisions, Some(decision))
                               /\ scores' = Append(scores, final)
                               /\ unsaved' = [unsaved EXCEPT
                                                !.lm = IF SaveDue(Len(scores'))
                                                       THEN 0 ELSE @ + 1]
  /\ i' = i + 1
  /\ UNCHANGED <<self, db, retrieval, npm, registrations, last_register, calls,
                 env, args, file, tot, topics, generations,
                 atomic_facts, respond_ratio, total_words, out>>

\* after the scoring loop: self.save_cache() and the report
ScoreEnd ==
  /\ pc = "score"
  /\ i = Len(topics)
  /\ unsaved' = [unsaved EXCEPT !.lm = 0]
  /\ out' = Some([score |-> MeanOfScores(scores),
                  respond_ratio |-> respond_ratio,
                  decisions |-> decisions,
                  num_facts_per_response |->
                    MeanOfInts(SelectSeq([k \in 1..Len(decisions) |->
                                            IF IsNone(decisions[k]) THEN -1
                                            ELSE Len(decisions[k].val)],
                                         LAMBDA n : n >= 0)),
                  init_score |-> IF args.gamma # 0
                                 THEN Some(MeanOfScores(init_scores)) ELSE None])
  /\ pc' = "done"
  /\ UNCHANGED <<self, lm_cache, db, retrieval, npm, registrations, last_register,
                 calls, env, args, file, tot, topics,
                 generations, atomic_facts, i, respond_ratio, total_words, scores,
                 init_scores, decisions, call, events>>

Next ==
  \/ ReadLine
  \/ GetScoreCall
  \/ DecomposeStep
  \/ DecomposeEnd
  \/ RespondRatio
  \/ EstimateStep
  \/ EstimateEnd
  \/ ScoreStep
  \/ ScoreEnd

(***************************************************************************)
(* Inputs.                                                                 *)
(***************************************************************************)
DefaultGamma == 10

\* fact j of a response, as its words
AtomAt(j) == <<"fact">> \o [m \in 1..j |-> "x"]

\* a non-abstained generation (or an annotation) with c facts, one a sentence
Gen(c) == Some([j \in 1..c |-> <<AtomAt(j)>>])

\* a generation: abstained, or with 0..MaxFacts facts
Gens == {None} \cup {Gen(c) : c \in 0..MaxFacts}

BatchesOf(gens, lens) == UNION {[1..n -> gens] : n \in lens}

\* the score vector of the first generated token: its length and its entries
\* at the two token ids that are read
Logits(shape, t, f) ==
  [shape |-> shape, at |-> [ix \in {true_ix, false_ix} |-> IF ix = true_ix THEN t ELSE f]]

Output(text, aux) == [text |-> text, aux |-> aux]

Texts == {T_True, T_False, T_Ex4, T_FalseFirst, T_Untrue, T_NoInfo, T_Yes, T_Nothing, T_Cannot}

Vectors == {Logits(32000, 1, 0), Logits(32000, 0, 1), Logits(32000, 0, 0),
            Logits(32001, 1, 0), Logits(128256, 1, 0)}

\* every text without scores, every text with scores that favour True, and
\* the two plain answers with every score vector
RichOutputs ==
  {Output(t, None) : t \in Texts}
  \cup {Output(t, Some(Logits(32000, 1, 0))) : t \in Texts}
  \cup {Output(t, Some(v)) : t \in {T_True, T_False}, v \in Vectors}

PlainOutputs ==
  {Output(t, a) : t \in {T_True, T_False}, a \in {None, Some(Logits(32000, 1, 0))}}

EmptyCache == [k \in {} |-> None]

\* a cache loaded at start that holds an answer for the first fact
LoadedCache(topic, output) ==
  [k \in {<<BuildPrompt(topic, get_passages(topic, AtomAt(1)), AtomAt(1)), 0>>} |-> output]

Topic == "t"

\* the state after FactScorer.__init__, at the start of the entry point
\* (entry = "main") or at a direct call of get_score (entry = "api", where
\* use_atomic_facts says that atomic_facts is supplied)
InitState(cfg, e, a, batch, cache) ==
  /\ self = cfg
  /\ lm_cache = cache
  /\ db = {}
  /\ retrieval = {}
  /\ npm = {}
  /\ registrations = [name \in KnowledgeSources |-> 0]
  /\ last_register = NoRegister
  /\ calls = 0
  /\ events = <<>>
  /\ env = e
  /\ args = a
  /\ tot = 0
  /\ IF a.entry = "main"
     THEN /\ file = [k \in 1..Len(batch) |->
                       [topic |-> Topic, output |-> batch[k], annotations |-> batch[k]]]
          /\ topics = <<>>
          /\ generations = <<>>
          /\ atomic_facts = <<>>
          /\ pc = "read"
     ELSE /\ file = <<>>
          /\ topics = [k \in 1..Len(batch) |-> Topic]
          /\ generations = batch
          /\ atomic_facts = IF a.use_atomic_facts
                            THEN [k \in 1..Len(batch) |->
                                    IF IsNone(batch[k]) THEN None
                                    ELSE Some(Flatten(batch[k].val))]
                            ELSE <<>>
          /\ pc = "call"
  /\ i = 0
  /\ respond_ratio = MeanOfBools(<<>>)
  /\ total_words = 0
  /\ scores = <<>>
  /\ init_scores = <<>>
  /\ decisions = <<>>
  /\ out = None
  /\ unsaved = [af |-> 0, lm |-> 0]
  /\ call = NoCall

Args(entry, use_atomic_facts, n_samples, gamma) ==
  [entry |-> entry, use_atomic_facts |-> use_atomic_facts, n_samples |-> n_samples,
   gamma |-> gamma]

(***************************************************************************)
(* Spec: batches through the entry point and through get_score.            *)
(***************************************************************************)
DefaultConfig ==
  FactScorerInit(S_Llama31_8B_Instruct, S_Llama31_8B_Instruct, FALSE, TRUE, "consider_cache")

ChatGPTConfigs ==
  {FactScorerInit(S_ChatGPT, S_ChatGPT, FALSE, TRUE, ce) :
     ce \in {"consider_cache", "ignore_cache"}}

\* the verification model answers True or False, the cross-checker above
\* its threshold
ScoreEnv ==
  [outputs |-> {Output(T_True, None), Output(T_False, None),
                Output(T_True, Some(Logits(32000, 1, 0))),
                Output(T_False, Some(Logits(32000, 0, 1)))},
   probs |-> {31}]

\* the verification model always answers True
PlainEnv ==
  [outputs |-> {Output(T_True, None), Output(T_True, Some(Logits(32000, 1, 0)))},
   probs |-> {31}]

\* direct calls of get_score: with supplied atomic_facts and every gamma,
\* and with the decomposer
InitApi ==
  \E use \in BOOLEAN, gamma \in 0..MaxGamma, batch \in BatchesOf(Gens, 1..MaxBatch) :
    /\ ~use => gamma = MaxGamma
    /\ InitState(DefaultConfig, ScoreEnv, Args("api", use, None, gamma), batch, EmptyCache)

\* direct calls of get_score with a model name that asks for cost estimates
InitEstimate ==
  \E cfg \in ChatGPTConfigs, batch \in BatchesOf(Gens, 1..MaxBatch),
     cache \in {EmptyCache, LoadedCache(Topic, Output(T_True, None))} :
    InitState(cfg, PlainEnv, Args("api", TRUE, None, DefaultGamma), batch, cache)

\* runs of the batch entry point
InitMain ==
  \E use \in BOOLEAN, n \in {None} \cup {Some(k) : k \in 1..MaxBatch},
     batch \in BatchesOf(Gens, 1..MaxBatch) :
    InitState(DefaultConfig, PlainEnv, Args("main", use, n, DefaultGamma), batch, EmptyCache)

Init == InitApi \/ InitEstimate \/ InitMain

Spec == Init /\ [][Next]_vars


(***************************************************************************)
(* SpecVerify: one call of get_score on one response with supplied facts,  *)
(* under every backend selection and every kind of model answer.           *)
(***************************************************************************)
AfgModels == {S_Llama31_8B_Instruct, S_gpt2}
AfvModels == {S_Llama31_8B_Instruct, S_Llama31_70B_Instruct, S_inst_llama, S_ChatGPT,
              S_npm, S_gpt2}

VerifyConfigs ==
  {FactScorerInit(afg, afv, is_npm, TRUE, "consider_cache") :
     afg \in AfgModels, afv \in AfvModels, is_npm \in BOOLEAN}

VerifyEnv == [outputs |-> RichOutputs, probs |-> {0, 30, 31}]

MaxVerifyFacts == 1

InitVerify ==
  \E cfg \in VerifyConfigs, c \in 1..MaxVerifyFacts,
     cache \in {EmptyCache, LoadedCache(Topic, Output(T_FalseFirst, None))} :
    InitState(cfg, VerifyEnv, Args("api", TRUE, None, DefaultGamma), <<Gen(c)>>, cache)

NextVerify ==
  \/ GetScoreCall
  \/ RespondRatio
  \/ EstimateStep
  \/ EstimateEnd
  \/ ScoreStep
  \/ ScoreEnd

SpecVerify == InitVerify /\ [][NextVerify]_vars

(***************************************************************************)
(* SpecFlush: long batches through the decomposer, where every response    *)
(* either abstains or has one fact and the model always answers True.      *)
(***************************************************************************)
InitFlush ==
  \E batch \in BatchesOf({None, Gen(1)}, {FlushBatch}) :
    InitState(DefaultConfig, PlainEnv, Args("api", FALSE, None, DefaultGamma), batch,
              EmptyCache)

NextFlush ==
  \/ GetScoreCall
  \/ DecomposeStep
  \/ DecomposeEnd
  \/ RespondRatio
  \/ ScoreStep
  \/ ScoreEnd

SpecFlush == InitFlush /\ [][NextFlush]_vars

(***************************************************************************)
(* SpecRegister: a user of one FactScorer who registers knowledge sources  *)
(* and calls get_score, MaxCalls further times, in any order.              *)
(***************************************************************************)
RegisterConfigs ==
  {FactScorerInit(S_Llama31_8B_Instruct, S_Llama31_8B_Instruct, is_npm, TRUE,
                  "consider_cache") : is_npm \in BOOLEAN}

InitRegister ==
  \E cfg \in RegisterConfigs, gen \in {None, Gen(1)},
     ks \in {None} \cup {Some(name) : name \in KnowledgeSources} :
    InitState(cfg, PlainEnv,
              WithKnowledgeSource(Args("api", TRUE, None, DefaultGamma), ks),
              <<gen>>, EmptyCache)

NextRegister ==
  \/ RegisterKnowledgeSource
  \/ GetScoreAgain
  \/ GetScoreCall
  \/ RespondRatio
  \/ ScoreStep
  \/ ScoreEnd

SpecRegister == InitRegister /\ [][NextRegister]_vars

(***************************************************************************)
(* SpecAbstain: batches through the abstain check and the decomposer, with *)
(* and without the cross-checker and the cost estimates; every model       *)
(* answer is True.                                                         *)
(***************************************************************************)
AbstainConfigs == RegisterConfigs \cup ChatGPTConfigs

AbstainEnv == [outputs |-> {Output(T_True, Some(Logits(32000, 1, 0)))}, probs |-> {31}]

InitAbstain ==
  \E cfg \in AbstainConfigs, batch \in BatchesOf(Gens, 1..MaxBatch) :
    InitState(cfg, AbstainEnv, Args("api", FALSE, None, DefaultGamma), batch, EmptyCache)

NextAbstain ==
  \/ GetScoreCall
  \/ DecomposeStep
  \/ DecomposeEnd
  \/ RespondRatio
  \/ EstimateStep
  \/ EstimateEnd
  \/ ScoreStep
  \/ ScoreEnd

SpecAbstain == InitAbstain /\ [][NextAbstain]_vars


(***************************************************************************)
(* Properties.                                                             *)
(***************************************************************************)
\* the entries of a list that are not None
NonAbsent(xs) == SelectSeq(xs, LAMBDA x : ~IsNone(x))

\* the trace of the last call of _get_score
LastTrace == IF call.kind = "none" THEN <<>> ELSE call.result.trace

\* the prompt _get_score builds for a fact
PromptOf(atom) == BuildPrompt(Topic, get_passages(Topic, atom), atom)

\* C1: in text mode, when the lower-cased answer contains both "true" and
\* "false", the keyword that occurs first decides: the fact is supported
\* exactly when "true" occurs before "false".
C1_FirstKeywordDecides ==
  \A k \in 1..Len(LastTrace) :
    LET e == LastTrace[k] IN
    (/\ e.mode = "text"
     /\ StrIn(S_true, Lower(e.output.val.text))
     /\ StrIn(S_false, Lower(e.output.val.text)))
    => (e.verified <=> StrIndex(Lower(e.output.val.text), S_true)
                         < StrIndex(Lower(e.output.val.text), S_false))

C3_NoModelAlwaysSupported ==
  (self.lm = "None" /\ call.kind = "score") =>
    \A k \in 1..Len(call.result.decisions) : call.result.decisions[k].is_supported

\* C3 amended: without a verification model the verification step marks every
\* fact supported and asks no model; the decision is supported when the
\* cross-checker is not enabled ("npm" is not in the model name), and with the
\* cross-checker enabled exactly when its probability is above 0.3.
C3_NoModelSupportedUpToVeto ==
  (self.lm = "None" /\ call.kind = "score") =>
    /\ call.result.lm_calls = 0
    /\ Len(call.result.decisions) = Len(call.facts)
    /\ \A k \in 1..Len(LastTrace) :
         LET e == LastTrace[k] IN
         /\ e.verified
         /\ IsNone(e.output)
         /\ call.result.decisions[k].is_supported = e.is_supported
         /\ ~StrIn(S_npm, self.model_name) => e.is_supported
         /\ StrIn(S_npm, self.model_name) =>
              /\ ~IsNone(e.npprob)
              /\ e.is_supported <=> (e.npprob.val > 30)

\* C3 witness: no model, no cross-checker, and a decision was made
C3_Witness ==
  /\ self.lm = "None"
  /\ ~StrIn(S_npm, self.model_name)
  /\ call.kind = "score"
  /\ Len(call.result.decisions) >= 1
  /\ call.result.decisions[1].is_supported

\* the call of _get_score with the cross-checker disabled (is_npm off), on
\* the same facts, cache and model answers as the last call
WithoutCrossChecker ==
  get_score_inner(FactScorerInit(self.afg_model, self.afv_model, FALSE, self.is_retrieval,
                                 self.cost_estimate),
                  Topic, call.facts, call.cost_estimate, call.cache_before,
                  [k \in 1..Len(call.facts) |->
                     IF IsNone(LastTrace[k].output) THEN Output(T_True, None)
                     ELSE LastTrace[k].output.val],
                  [k \in 1..Len(call.facts) |-> 100])

\* C4: the cross-checker is asked only about facts the verification step
\* supports, makes such a fact unsupported exactly when its probability is at
\* most 0.3, and never makes an unsupported fact supported; so each decision,
\* and the number of supported facts, is at most what the same call gives
\* with the cross-checker disabled.
C4_VetoOneDirectional ==
  (call.kind = "score" /\ ~call.result.error) =>
    /\ \A k \in 1..Len(LastTrace) :
         LET e == LastTrace[k] IN
         /\ ~IsNone(e.npprob) <=> (e.verified /\ StrIn(S_npm, self.model_name))
         /\ ~IsNone(e.npprob) => (~e.is_supported <=> e.npprob.val <= 30)
         /\ IsNone(e.npprob) => (e.is_supported <=> e.verified)
         /\ e.is_supported => e.verified
    /\ call.result.npm_calls = Cardinality({k \in 1..Len(LastTrace) : ~IsNone(LastTrace[k].npprob)})
    /\ ~StrIn(S_npm, generate_model_name(self.afg_model, self.afv_model, FALSE,
                                          self.is_retrieval)) =>
         /\ Len(WithoutCrossChecker.decisions) = Len(call.result.decisions)
         /\ \A k \in 1..Len(call.result.decisions) :
              call.result.decisions[k].is_supported
                => WithoutCrossChecker.decisions[k].is_supported
         /\ InitScore(call.result.decisions).num <= InitScore(WithoutCrossChecker.decisions).num

\* C4 witness: the cross-checker vetoed a supported fact at probability 0.3
C4_Witness ==
  \E k \in 1..Len(LastTrace) :
    /\ LastTrace[k].verified
    /\ LastTrace[k].npprob = Some(30)
    /\ ~LastTrace[k].is_supported
    /\ WithoutCrossChecker.decisions[k].is_supported

\* C5: in both loops of get_score at most 9 processed items have work that
\* has not been flushed to their cache.
C5_AtMostNineUnsaved == unsaved.af <= 9 /\ unsaved.lm <= 9

\* the words of the prompts of a response that a cost estimate counts
EstimateOf(facts, counted(_)) ==
  SumSeq([k \in 1..Len(facts) |->
            IF counted(PromptOf(facts[k])) THEN Len(PromptOf(facts[k])) ELSE 0])

C7_RespondRatio ==
  (pc = "done" /\ args.entry = "api") =>
    out.val.respond_ratio
      = MeanOfBools([k \in 1..Len(generations) |->
                       /\ ~IsNone(generations[k])
                       /\ Flatten(generations[k].val) # <<>>])

\* C8: with --use_atomic_facts a record with null annotations stays in the
\* batch handed to get_score, with absent claims.
C8_NullAnnotationKept ==
  (args.entry = "main" /\ args.use_atomic_facts /\ pc = "call") =>
    /\ Len(topics) = tot
    /\ Len(atomic_facts) = tot
    /\ \A k \in 1..tot : IsNone(file[k].annotations) => IsNone(atomic_facts[k])

\* C9: a response whose claims are absent adds nothing to scores and
\* init_scores and only a null to decisions; the report's score is the mean
\* of the scores of the other responses, and num_facts_per_response the mean
\* of their claim counts.
C9_AbsentNeverZero ==
  /\ pc = "score" => Len(decisions) = i
  /\ pc \in {"score", "done"} =>
       /\ \A k \in 1..Len(decisions) : IsNone(decisions[k]) <=> IsNone(atomic_facts[k])
       /\ Len(scores) = Cardinality({k \in 1..Len(decisions) : ~IsNone(atomic_facts[k])})
       /\ \A j \in 1..Len(scores) :
            scores[j].den = Len(NonAbsent(SubSeq(atomic_facts, 1, Len(decisions)))[j].val)
       /\ Len(init_scores) = IF args.gamma # 0 THEN Len(scores) ELSE 0
  /\ pc = "done" =>
       /\ Len(decisions) = Len(topics)
       /\ out.val.decisions = decisions
       /\ out.val.score = [mean_of |-> scores]
       /\ out.val.num_facts_per_response
            = [num |-> SumSeq([j \in 1..Len(NonAbsent(atomic_facts)) |->
                                 Len(NonAbsent(atomic_facts)[j].val)]),
               den |-> Len(NonAbsent(atomic_facts))]

\* C9 witness: a batch of 3, one abstained and two fully supported responses
\* of 2 claims each: respond_ratio 2/3 and a score over 2 responses
C9_Witness ==
  /\ pc = "done"
  /\ ~args.use_atomic_facts
  /\ Len(topics) = 3
  /\ Cardinality({k \in 1..3 : is_response_abstained(generations[k])}) = 1
  /\ \A k \in 1..3 :
       ~IsNone(decisions[k]) =>
         /\ Len(decisions[k].val) = 2
         /\ \A m \in 1..2 : decisions[k].val[m].is_supported
  /\ out.val.respond_ratio = [num |-> 2, den |-> 3]
  /\ Len(out.val.score.mean_of) = 2
  /\ Len(out.val.decisions) = 3

\* C10: with gamma > 0 a response with c >= 1 claims gets penalty 1 when
\* c > gamma and exp(1 - gamma/c) otherwise, its final score is the penalty
\* times the mean of is_supported and init_scores keeps the mean; so the final
\* score equals the mean when c >= gamma, is never greater, and the penalty
\* strictly increases with c up to gamma.
C10_LengthPenalty ==
  (pc \in {"score", "done"} /\ args.gamma > 0) =>
    LET scored == NonAbsent(SubSeq(atomic_facts, 1, Len(decisions)))
        made == NonAbsent(decisions)
    IN /\ Len(scored) = Len(scores)
       /\ Len(init_scores) = Len(scores)
       /\ \A j \in 1..Len(scores) :
            LET c == Len(scored[j].val) IN
            /\ c >= 1
            /\ scores[j].ed > 0
            /\ c > args.gamma => scores[j].en = 0
            /\ c <= args.gamma => scores[j].en * c = (c - args.gamma) * scores[j].ed
            /\ init_scores[j].en = 0
            /\ init_scores[j].den = c
            /\ init_scores[j].num
                 = Cardinality({m \in 1..c : made[j].val[m].is_supported})
            /\ scores[j].num = init_scores[j].num
            /\ scores[j].den = init_scores[j].den
            /\ c >= args.gamma => scores[j].en = 0
            /\ scores[j].en <= 0
            /\ \A j2 \in 1..Len(scores) :
                 (c < Len(scored[j2].val) /\ Len(scored[j2].val) <= args.gamma)
                   => scores[j].en * scores[j2].ed < scores[j2].en * scores[j].ed

\* C10 witness: gamma = 2 with a response of 1 claim (penalized) and one of
\* 2 claims (not penalized)
C10_Witness ==
  /\ pc = "done"
  /\ args.gamma = 2
  /\ \E j, j2 \in 1..Len(scores) :
       /\ scores[j].den = 1 /\ scores[j].en < 0 /\ scores[j].num = 1
       /\ scores[j2].den = 2 /\ scores[j2].en = 0

(***************************************************************************)
(* C11: registering a name that is already registered fails and leaves the *)
(* db, retrieval and cross-checker registries as they were; over every     *)
(* sequence of register_knowledge_source and get_score calls the entries   *)
(* of a name are filled in at most once, and get_score's own registration  *)
(* never fails because it registers only a name that is not registered.    *)
(***************************************************************************)
C11_RegisteredAtMostOnce ==
  /\ \A name \in KnowledgeSources :
       /\ registrations[name] <= 1
       /\ registrations[name] = 1 <=> name \in retrieval
       /\ name \in db <=> name \in retrieval
       /\ name \in npm <=> name \in retrieval /\ StrIn(S_npm, self.model_name)
  /\ last_register.kind # "none" =>
       /\ Registries = last_register.after
       /\ last_register.failed <=> last_register.name \in last_register.before.retrieval
       /\ last_register.failed => last_register.after = last_register.before
       /\ last_register.kind = "get_score" => ~last_register.failed

\* a second registration of a name has failed, and get_score has run with
\* both names registered
C11_Witness ==
  /\ last_register.kind = "register"
  /\ last_register.failed
  /\ last_register.name \in npm
  /\ pc = "done"
  /\ \A name \in KnowledgeSources : registrations[name] = 1

(***************************************************************************)
(* C12: text mode, answers with neither "true" nor "false".                *)
(***************************************************************************)
\* the text-mode entries of the last call whose lower-cased answer contains
\* neither "true" nor "false"
NeitherEntries ==
  {k \in 1..Len(LastTrace) :
     /\ LastTrace[k].mode = "text"
     /\ ~StrIn(S_true, Lower(LastTrace[k].output.val.text))
     /\ ~StrIn(S_false, Lower(LastTrace[k].output.val.text))}

\* the lower-cased answer of entry k with its punctuation removed
Stripped(k) == StripPunctuation(Lower(LastTrace[k].output.val.text))

\* kw stands in s as a whole word: between whitespace or the ends of s
OccursAsWord(kw, s) ==
  \E k \in Occurrences(kw, s) :
    /\ k = 0 \/ s[k] \in Whitespace
    /\ k + Len(kw) = Len(s) \/ s[k + Len(kw) + 1] \in Whitespace

\* C12 as claimed: with neither "true" nor "false" in the answer, the fact
\* is supported unless the answer with its punctuation stripped contains
\* one of "not", "cannot", "unknown", "information", and then it is not.
C12_RefusalKeywordContained ==
  \A k \in NeitherEntries :
    LastTrace[k].verified
      <=> ~\E j \in 1..Len(RefusalKeywords) : StrIn(RefusalKeywords[j], Stripped(k))

\* C12 as the code has it: with neither "true" nor "false" in the answer,
\* the fact is supported unless one of "not", "cannot", "unknown",
\* "information" is a whole whitespace-separated word of the lower-cased
\* answer with its punctuation stripped, and then it is not.
C12_RefusalKeywordIsWord ==
  \A k \in NeitherEntries :
    LastTrace[k].verified
      <=> ~\E j \in 1..Len(RefusalKeywords) : OccursAsWord(RefusalKeywords[j], Stripped(k))

\* an answer that holds "cannot" only once its comma is stripped was
\* resolved as unsupported
C12_Witness ==
  \E k \in NeitherEntries :
    /\ LastTrace[k].output.val.text = T_Cannot
    /\ ~LastTrace[k].verified

(***************************************************************************)
(* C13: abstained responses and the order of the calls of a run.           *)
(***************************************************************************)
\* the calls that decompose or verify a response
WorkOps == {"decompose", "retrieval", "verify", "cross_check"}

\* the calls that verify a response
VerifyOps == {"retrieval", "verify", "cross_check"}

\* the responses whose abstain check has returned true in this run
AbstainedResponses ==
  {events[p].response : p \in {q \in DOMAIN events : events[q] = AbstainCheck(events[q].response, TRUE)}}

C14_SampleLimitBoundsInput ==
  (args.entry = "main" /\ ~IsNone(args.n_samples)) =>
    /\ tot <= args.n_samples.val
    /\ Len(topics) <= args.n_samples.val

====
